---- MODULE Spec2Model ----
(***************************************************************************)
(* Model of vmm/adjustment.py: AdjustmentSettings, ImageAdjuster and the   *)
(* settings export / import functions.                                     *)
(*                                                                         *)
(* Numbers.  Every floating value is a fixed-point integer counted in      *)
(* thousandths (Unit), rounded to the nearest thousandth after each        *)
(* arithmetic operation, in place of the float32 rounding of the source.   *)
(* An intensity 255 is 255000, a normalized 0.5 is 500, contrast 2.0 is    *)
(* 2000.  Integer dtypes hold whole multiples of Unit.                     *)
(*                                                                         *)
(* Arrays.  An ndarray is a sequence of rows of equal length.  A volume of *)
(* shape (Z, 1, X) is the sequence of its Z planes, each plane one row of  *)
(* X samples; the 2D slice volume[z] of shape (1, X) is the one-row array  *)
(* <<volume[z]>>.                                                          *)
(*                                                                         *)
(* Objects.  Arrays live in a heap indexed by object identity, so that     *)
(* "copy" and "same object" are different things.  A value flowing through *)
(* the pipeline carries the identity of the heap object it is (obj = <<i>>)*)
(* or obj = <<>> when it is a newly allocated array.                       *)
(***************************************************************************)
EXTENDS Integers, Sequences, FiniteSets, TLC

\* Optional values: None, or a one-element sequence holding the value.
None == <<>>
Some(x) == <<x>>

\* Fixed-point resolution of the float32 working domain.
Unit == 1000

\* a / b rounded to the nearest integer (b > 0).
RoundDiv(a, b) == (2 * a + b) \div (2 * b)

\* np.clip on one element.
Clip(x, lo, hi) == IF x < lo THEN lo ELSE IF x > hi THEN hi ELSE x

\* The nr x nc array whose element (r, c) is F(r, c), built eagerly (the
\* concatenations with <<>> leave the value unchanged).
MkArr(nr, nc, F(_, _)) == [r \in 1..nr |-> [c \in 1..nc |-> F(r, c)] \o <<>>] \o <<>>

\* Elementwise application of an operator to an array.
MapArr(F(_), arr) ==
    LET G(r, c) == F(arr[r][c])
    IN MkArr(Len(arr), Len(arr[1]), G)

Elems(arr) == {arr[r][c] : r \in 1..Len(arr), c \in 1..Len(arr[1])}

\* ndarray.min() / ndarray.max()
ArrMin(arr) == CHOOSE m \in Elems(arr) : \A x \in Elems(arr) : m <= x
ArrMax(arr) == CHOOSE m \in Elems(arr) : \A x \in Elems(arr) : m >= x

-----------------------------------------------------------------------------
(* AdjustmentSettings *)

DefaultSettings ==
    [brightness |-> 0, contrast |-> Unit, gamma |-> Unit, sharpness |-> 0, invert |-> FALSE]

\* Faulty variant of is_default: invert is not looked at
is_default_IgnoresInvert(s) ==
    /\ s.brightness = 0
    /\ s.contrast = Unit
    /\ s.gamma = Unit
    /\ s.sharpness = 0

is_default(s) ==
    /\ s.brightness = 0
    /\ s.contrast = Unit
    /\ s.gamma = Unit
    /\ s.sharpness = 0
    /\ ~s.invert

-----------------------------------------------------------------------------
(* Per-effect transforms.  image is a pipeline value [obj, dtype, data].   *)

Fresh(dtype, data) == [obj |-> None, dtype |-> dtype, data |-> data]

apply_brightness(image, brightness) ==
    IF brightness = 0 THEN image
    ELSE LET offset == RoundDiv(brightness, 100)
             F(x) == Clip(x + offset, 0, Unit)
         IN Fresh("float32", MapArr(F, image.data))

apply_contrast(image, contrast) ==
    IF contrast = Unit THEN image
    ELSE LET F(x) == Clip(RoundDiv((x - Unit \div 2) * contrast, Unit) + Unit \div 2, 0, Unit)
         IN Fresh("float32", MapArr(F, image.data))

\* floor(sqrt(n)) by bisection on [lo, hi].
RECURSIVE SqrtSearch(_, _, _)
SqrtSearch(n, lo, hi) ==
    IF lo >= hi THEN lo
    ELSE LET mid == (lo + hi + 1) \div 2
         IN IF mid * mid <= n THEN SqrtSearch(n, mid, hi) ELSE SqrtSearch(n, lo, mid - 1)

\* sqrt of a fixed-point x in [0, 1], to the nearest thousandth.
SqrtUnit(x) ==
    LET f == SqrtSearch(x * Unit, 0, Unit)
    IN IF (x * Unit - f * f) > f THEN f + 1 ELSE f

\* np.power(x, 1.0 / gamma) for x in [0, 1]; the exponents the model's
\* gamma values produce are 2 (gamma 0.5) and 1/2 (gamma 2.0).
Power(x, gamma) ==
    CASE gamma = Unit \div 2 -> RoundDiv(x * x, Unit)
      [] gamma = 2 * Unit    -> SqrtUnit(x)

\* "1.0 / gamma" with gamma = 0: Python's float division raises
\* ZeroDivisionError before np.power is called
GammaRaises(gamma) == gamma # Unit /\ gamma = 0

apply_gamma(image, gamma) ==
    IF gamma = Unit THEN image
    ELSE LET F(x) == Power(Clip(x, 0, Unit), gamma)
         IN Fresh("float32", MapArr(F, image.data))

\* scipy.ndimage.gaussian_filter(sigma=1.0): truncate=4.0 gives radius 4,
\* weights exp(-k^2/2) normalized by their sum, mode='reflect', one
\* correlation pass per axis, axis 0 first.
Kernel == <<3989, 2420, 540, 44, 1>>
KernelSum == Kernel[1] + 2 * (Kernel[2] + Kernel[3] + Kernel[4] + Kernel[5])
Abs(k) == IF k < 0 THEN -k ELSE k

\* mode='reflect' (d c b a | a b c d | d c b a), 1-based index into 1..n.
Reflect(i, n) ==
    LET m == (i - 1) % (2 * n)
    IN IF m < n THEN m + 1 ELSE 2 * n - m

RECURSIVE KSum(_, _, _, _)
\* sum over offsets k..4 of weight * line[reflect(j + k)]
KSum(line, j, k, n) ==
    IF k > 4 THEN 0
    ELSE Kernel[Abs(k) + 1] * line[Reflect(j + k, n)] + KSum(line, j, k + 1, n)

Correlate1d(line) ==
    [j \in 1..Len(line) |-> RoundDiv(KSum(line, j, -4, Len(line)), KernelSum)] \o <<>>

gaussian_filter(arr) ==
    LET nr == Len(arr)
        nc == Len(arr[1])
        \* axis 0: along the rows, one column at a time
        cols  == [c \in 1..nc |-> Correlate1d([k \in 1..nr |-> arr[k][c]] \o <<>>)] \o <<>>
        \* axis 1: along each row
        pass1 == [r \in 1..nr |-> Correlate1d([c \in 1..nc |-> cols[c][r]] \o <<>>)] \o <<>>
    IN pass1

\* Faulty variant of apply_sharpness: the sharpened field is returned unclipped
apply_sharpness_NoClip(image, sharpness) ==
    IF sharpness = 0 THEN image
    ELSE LET amount == RoundDiv(sharpness, 50)
             blurred == gaussian_filter(image.data)
             data == image.data
             F(r, c) == data[r][c] + RoundDiv(amount * (data[r][c] - blurred[r][c]), Unit)
         IN Fresh("float32", MkArr(Len(data), Len(data[1]), F))

apply_sharpness(image, sharpness) ==
    IF sharpness = 0 THEN image
    ELSE LET amount == RoundDiv(sharpness, 50)
             blurred == gaussian_filter(image.data)
             data == image.data
             F(r, c) == Clip(data[r][c] + RoundDiv(amount * (data[r][c] - blurred[r][c]), Unit),
                             0, Unit)
         IN Fresh("float32", MkArr(Len(data), Len(data[1]), F))

apply_invert(image, invert) ==
    IF ~invert THEN image
    ELSE LET F(x) == Unit - x
         IN Fresh("float32", MapArr(F, image.data))

-----------------------------------------------------------------------------
(* Array element types *)

IsInteger(dtype) == dtype \in {"uint8"}

\* np.iinfo(dtype), in fixed-point units
IInfo(dtype) == CASE dtype = "uint8" -> [min |-> 0, max |-> 255 * Unit]

\* float -> int conversion of one element: truncation toward zero.
Trunc(x) == IF x >= 0 THEN x \div Unit ELSE -((-x) \div Unit)

\* ndarray.astype(dtype) on one element; an 8-bit result keeps its width.
CastElem(x, dtype) ==
    CASE dtype = "uint8"   -> (Trunc(x) % 256) * Unit
      [] dtype = "float32" -> x

\* ndarray.astype(dtype): always a new array.
AsType(image, dtype) ==
    LET F(x) == CastElem(x, dtype)
    IN Fresh(dtype, MapArr(F, image.data))

-----------------------------------------------------------------------------
(* Bounds and input sets *)

\* number of planes of a volume, and samples per plane
DimZ == 2
DimX == 2
\* number of calls made on the adjuster in one behaviour
MaxSteps == 4
\* number of lines of a settings file written by hand
MaxLines == 3

\* intensity levels the caller's arrays are filled from, per element type
Levels(dtype) ==
    CASE dtype = "uint8"   -> <<0, 50 * Unit, 100 * Unit, 255 * Unit>>
      [] dtype = "float32" -> <<-Unit, 0, Unit \div 2, (5 * Unit) \div 2>>

\* the (DimZ, 1, DimX) array whose sample (r, c) is level (a*r + b*c + k) mod 4
Pattern(dtype, a, b, k) ==
    LET F(r, c) == Levels(dtype)[((a * (r - 1) + b * (c - 1) + k) % 4) + 1]
    IN [dtype |-> dtype, data |-> MkArr(DimZ, DimX, F)]

\* every array a caller may build
AllVolumes == {Pattern(d, a, b, k) : d \in {"uint8", "float32"}, a \in 0..1, b \in 0..3, k \in 0..3}

\* the arrays the caller builds in the call-sequence specification
CallerVolumes == {Pattern("uint8", 1, 1, 0), Pattern("float32", 1, 2, 0)}

\* values the caller writes into an array it holds
WriteVals == {255 * Unit}

\* every settings value of the model
AllSettings ==
    [brightness : {-50 * Unit, 0, 20 * Unit, 100 * Unit},
     contrast   : {Unit \div 2, Unit, 2 * Unit, 3 * Unit},
     gamma      : {Unit \div 2, Unit, 2 * Unit},
     sharpness  : {0, 50 * Unit, 100 * Unit},
     invert     : BOOLEAN]

\* settings values outside the documented domains: gamma 0, contrast above
\* 3.0, brightness beyond +-100 (a negative gamma makes np.power return inf,
\* which the fixed-point samples cannot hold, and is left out)
WildSettings ==
    {[DefaultSettings EXCEPT !.gamma = 0],
     [DefaultSettings EXCEPT !.gamma = 0, !.brightness = 20 * Unit, !.invert = TRUE],
     [DefaultSettings EXCEPT !.contrast = 5 * Unit],
     [DefaultSettings EXCEPT !.brightness = 150 * Unit],
     [DefaultSettings EXCEPT !.brightness = -150 * Unit, !.contrast = 5 * Unit,
                             !.sharpness = 50 * Unit]}

\* the settings values used in the call-sequence specification
CallerSettings ==
    {DefaultSettings,
     [DefaultSettings EXCEPT !.brightness = 20 * Unit, !.contrast = 2 * Unit],
     [DefaultSettings EXCEPT !.gamma = 2 * Unit, !.sharpness = 50 * Unit, !.invert = TRUE]}

-----------------------------------------------------------------------------
(* State *)

VARIABLES
    heap,             \* the arrays that exist: heap[i] = [dtype, data]
    held,             \* identities of the arrays the caller has a reference to
    settings,         \* ImageAdjuster.settings
    original_volume,  \* ImageAdjuster._original_volume: None or Some(identity)
    original_dtype,   \* ImageAdjuster._original_dtype
    original_min,     \* ImageAdjuster._original_min
    original_max,     \* ImageAdjuster._original_max
    reg,              \* history: argument and contents of the latest set_original_volume call
    last,             \* history: the latest call, its arguments, locals and outcome
    nsteps,           \* history: number of calls made so far
    file,             \* the settings file: None, or Some([lines, exported])
    io                \* history: the latest export / load call, the I/O fault it met,
                      \* what it returned and the exception that reached the caller

vars == <<heap, held, settings, original_volume, original_dtype, original_min,
          original_max, reg, last, nsteps, file, io>>

storage == <<file, io>>

adjuster == <<settings, original_volume, original_dtype, original_min, original_max>>

NoCall ==
    [op |-> "none", status |-> "ok", volume |-> None, row |-> None, sarg |-> None,
     used |-> None, result |-> None, v_min |-> None, v_max |-> None,
     normalized |-> None, field |-> None, written |-> None]

NoIO == [op |-> "none", ret |-> None, ok |-> FALSE, fault |-> "none", raised |-> None]

\* ImageAdjuster.__init__
Init ==
    /\ heap = <<>>
    /\ held = {}
    /\ settings = DefaultSettings
    /\ original_volume = None
    /\ original_dtype = None
    /\ original_min = None
    /\ original_max = None
    /\ reg = None
    /\ last = NoCall
    /\ nsteps = 0
    /\ file = None
    /\ io = NoIO

-----------------------------------------------------------------------------
(* ImageAdjuster operations *)

\* the heap object i as a pipeline value
Obj(i) == [obj |-> Some(i), dtype |-> heap[i].dtype, data |-> heap[i].data]

\* the view volume[z] of heap object i: a 2D array sharing i's memory
View(i, z) == [obj |-> Some(i), dtype |-> heap[i].dtype, data |-> <<heap[i].data[z]>>]

\* ndarray.copy()
Copy(image) == Fresh(image.dtype, image.data)

\* (volume.astype(np.float32) - v_min) / (v_max - v_min)
Normalize(image, v_min, v_max) ==
    LET F(x) == RoundDiv((x - v_min) * Unit, v_max - v_min)
    IN Fresh("float32", MapArr(F, image.data))

\* np.zeros_like(volume, dtype=np.float32)
ZerosLike(image) ==
    LET F(x) == 0
    IN Fresh("float32", MapArr(F, image.data))

\* result * (v_max - v_min) + v_min
Denormalize(image, v_min, v_max) ==
    LET F(x) == RoundDiv(x * (v_max - v_min), Unit) + v_min
    IN Fresh("float32", MapArr(F, image.data))

\* np.clip(result, info.min, info.max)
ClipArr(image, lo, hi) ==
    LET F(x) == Clip(x, lo, hi)
    IN Fresh(image.dtype, MapArr(F, image.data))

Raised(exc) ==
    [status |-> exc, value |-> None, used |-> None, v_min |-> None, v_max |-> None,
     normalized |-> None, field |-> None]

\* an exception raised inside the transform chain: the settings and the
\* normalization locals the call had computed when it was raised
RaisedInChain(exc, s, v_min, v_max, normalized) ==
    [status |-> exc, value |-> None, used |-> Some(s), v_min |-> v_min, v_max |-> v_max,
     normalized |-> normalized, field |-> None]

Returned(value, s, v_min, v_max, normalized, field) ==
    [status |-> "ok", value |-> Some(value), used |-> Some(s), v_min |-> v_min,
     v_max |-> v_max, normalized |-> normalized, field |-> field]

\* "if volume is None: if self._original_volume is None: raise ValueError"
NoVolume(volume) == volume = None /\ original_volume = None

\* Faulty variant of VolumeFastPath: "return volume" without the copy
VolumeFastPath_NoCopy(volume) == volume

\* the quick return of apply_adjustments
VolumeFastPath(volume) == Copy(volume)

\* Faulty variant of SliceFastPath: "return slice_2d" without the copy
SliceFastPath_NoCopy(slice_2d) == slice_2d

\* the quick return of apply_to_slice
SliceFastPath(slice_2d) == Copy(slice_2d)

\* Faulty variant of VolumeRange: the range of the volume argument itself
VolumeRange_OfArgument(volume) ==
    [v_min |-> ArrMin(volume.data), v_max |-> ArrMax(volume.data)]

\* v_min, v_max of apply_adjustments
VolumeRange(volume) ==
    [v_min |-> IF original_min # None THEN original_min[1] ELSE ArrMin(volume.data),
     v_max |-> IF original_max # None THEN original_max[1] ELSE ArrMax(volume.data)]

\* Faulty variant of SliceRange: always the slice's own range
SliceRange_OwnRange(slice_2d) ==
    [v_min |-> ArrMin(slice_2d.data), v_max |-> ArrMax(slice_2d.data)]

\* v_min, v_max of apply_to_slice
SliceRange(slice_2d) ==
    IF original_min # None /\ original_max # None
    THEN [v_min |-> original_min[1], v_max |-> original_max[1]]
    ELSE [v_min |-> ArrMin(slice_2d.data), v_max |-> ArrMax(slice_2d.data)]

\* Faulty variant of Normalized: a constant range is normalized to np.ones_like
Normalized_Ones(image, v_min, v_max) ==
    IF v_max = v_min
    THEN LET F(x) == Unit IN Fresh("float32", MapArr(F, image.data))
    ELSE Normalize(image, v_min, v_max)

\* "if v_max == v_min: zeros_like else: (x - v_min) / (v_max - v_min)"
Normalized(image, v_min, v_max) ==
    IF v_max = v_min THEN ZerosLike(image) ELSE Normalize(image, v_min, v_max)

\* Faulty variant of VolumeChain: contrast applied before brightness
VolumeChain_ContrastFirst(normalized, s) ==
    LET r1 == apply_contrast(normalized, s.contrast)
        r2 == apply_brightness(r1, s.brightness)
        r3 == apply_gamma(r2, s.gamma)
        r4 == apply_sharpness(r3, s.sharpness)
        r5 == apply_invert(r4, s.invert)
    IN r5

\* the five transforms of apply_adjustments, in the order of the code
VolumeChain(normalized, s) ==
    LET r1 == apply_brightness(normalized, s.brightness)
        r2 == apply_contrast(r1, s.contrast)
        r3 == apply_gamma(r2, s.gamma)
        r4 == apply_sharpness(r3, s.sharpness)
        r5 == apply_invert(r4, s.invert)
    IN r5

\* Faulty variant of SliceChain: contrast applied before brightness
SliceChain_ContrastFirst(normalized, s) ==
    LET r1 == apply_contrast(normalized, s.contrast)
        r2 == apply_brightness(r1, s.brightness)
        r3 == apply_gamma(r2, s.gamma)
        r4 == apply_sharpness(r3, s.sharpness)
        r5 == apply_invert(r4, s.invert)
    IN r5

\* the five transforms of apply_to_slice, in the order of the code
SliceChain(normalized, s) ==
    LET r1 == apply_brightness(normalized, s.brightness)
        r2 == apply_contrast(r1, s.contrast)
        r3 == apply_gamma(r2, s.gamma)
        r4 == apply_sharpness(r3, s.sharpness)
        r5 == apply_invert(r4, s.invert)
    IN r5

\* Faulty variant of RestoreDtype: the cast back to the original dtype is missing
RestoreDtype_NoCast(result) ==
    IF original_dtype # None /\ IsInteger(original_dtype[1])
    THEN ClipArr(result, IInfo(original_dtype[1]).min, IInfo(original_dtype[1]).max)
    ELSE result

\* "Clip to valid range for dtype" and the cast back
RestoreDtype(result) ==
    IF original_dtype # None
    THEN LET clipped == IF IsInteger(original_dtype[1])
                        THEN ClipArr(result, IInfo(original_dtype[1]).min,
                                     IInfo(original_dtype[1]).max)
                        ELSE result
         IN AsType(clipped, original_dtype[1])
    ELSE result

\* ImageAdjuster.apply_adjustments(volume, settings); volume is None or
\* Some(identity), sarg is None or Some(settings value).
apply_adjustments(volume, sarg) ==
    IF NoVolume(volume) THEN Raised("ValueError")
    ELSE
    LET vol == IF volume = None THEN Obj(original_volume[1]) ELSE Obj(volume[1])
        s   == IF sarg = None THEN settings ELSE sarg[1]
    IN
    IF is_default(s)
    THEN Returned(VolumeFastPath(vol), s, None, None, None, None)
    ELSE
    LET range      == VolumeRange(vol)
        normalized == Normalized(vol, range.v_min, range.v_max)
        field      == VolumeChain(normalized, s)
        result     == Denormalize(field, range.v_min, range.v_max)
    IN IF GammaRaises(s.gamma)
       THEN RaisedInChain("ZeroDivisionError", s, Some(range.v_min), Some(range.v_max),
                          Some(normalized.data))
       ELSE Returned(RestoreDtype(result), s, Some(range.v_min), Some(range.v_max),
                     Some(normalized.data), Some(field.data))

\* ImageAdjuster.apply_to_slice(slice_2d, settings); slice_2d is the view
\* volume[z] of heap object i.
apply_to_slice(i, z, sarg) ==
    LET slice_2d == View(i, z)
        s == IF sarg = None THEN settings ELSE sarg[1]
    IN
    IF is_default(s)
    THEN Returned(SliceFastPath(slice_2d), s, None, None, None, None)
    ELSE
    LET range      == SliceRange(slice_2d)
        normalized == Normalized(slice_2d, range.v_min, range.v_max)
        field      == SliceChain(normalized, s)
        result     == Denormalize(field, range.v_min, range.v_max)
    IN IF GammaRaises(s.gamma)
       THEN RaisedInChain("ZeroDivisionError", s, Some(range.v_min), Some(range.v_max),
                          Some(normalized.data))
       ELSE Returned(result, s, Some(range.v_min), Some(range.v_max),
                     Some(normalized.data), Some(field.data))

\* Hands the outcome of an apply call to the caller: a new array becomes a
\* new heap object, an existing object is returned as itself.
Return(opname, volume, row, sarg, out) ==
    /\ nsteps < MaxSteps
    /\ nsteps' = nsteps + 1
    /\ UNCHANGED <<reg, storage>>
    /\ IF out.status # "ok"
       THEN /\ UNCHANGED <<heap, held>>
            /\ last' = [NoCall EXCEPT !.op = opname, !.status = out.status,
                                      !.volume = volume, !.row = row, !.sarg = sarg,
                                      !.used = out.used, !.v_min = out.v_min,
                                      !.v_max = out.v_max, !.normalized = out.normalized]
       ELSE LET v   == out.value[1]
                rid == IF v.obj = None THEN Len(heap) + 1 ELSE v.obj[1]
            IN /\ heap' = IF v.obj = None
                          THEN Append(heap, [dtype |-> v.dtype, data |-> v.data])
                          ELSE heap
               /\ held' = held \cup {rid}
               /\ last' = [op |-> opname, status |-> "ok", volume |-> volume, row |-> row,
                           sarg |-> sarg, used |-> out.used, result |-> Some(rid),
                           v_min |-> out.v_min, v_max |-> out.v_max,
                           normalized |-> out.normalized, field |-> out.field,
                           written |-> None]

\* The caller builds an array v.
NewVolume(v) ==
    /\ nsteps < MaxSteps
    /\ nsteps' = nsteps + 1
    /\ heap' = Append(heap, v)
    /\ held' = held \cup {Len(heap) + 1}
    /\ last' = [NoCall EXCEPT !.op = "new_volume", !.result = Some(Len(heap) + 1)]
    /\ UNCHANGED <<adjuster, reg, storage>>

\* Faulty variant of SetOriginalVolume: the array is stored without being copied
SetOriginalVolume_NoCopy(i) ==
    /\ nsteps < MaxSteps
    /\ nsteps' = nsteps + 1
    /\ heap' = heap
    /\ original_volume' = Some(i)
    /\ original_dtype' = Some(heap[i].dtype)
    /\ original_min' = Some(ArrMin(heap[i].data))
    /\ original_max' = Some(ArrMax(heap[i].data))
    /\ reg' = Some([arg |-> i, dtype |-> heap[i].dtype, data |-> heap[i].data])
    /\ last' = [NoCall EXCEPT !.op = "set_original_volume", !.volume = Some(i)]
    /\ UNCHANGED <<held, settings, storage>>

\* Faulty variant of SetOriginalVolume: the range is computed at the first
\* registration only and kept at a re-registration
SetOriginalVolume_KeepsRange(i) ==
    /\ nsteps < MaxSteps
    /\ nsteps' = nsteps + 1
    /\ heap' = Append(heap, [dtype |-> heap[i].dtype, data |-> heap[i].data])
    /\ original_volume' = Some(Len(heap) + 1)
    /\ original_dtype' = Some(heap[i].dtype)
    /\ original_min' = IF original_min = None THEN Some(ArrMin(heap[i].data)) ELSE original_min
    /\ original_max' = IF original_max = None THEN Some(ArrMax(heap[i].data)) ELSE original_max
    /\ reg' = Some([arg |-> i, dtype |-> heap[i].dtype, data |-> heap[i].data])
    /\ last' = [NoCall EXCEPT !.op = "set_original_volume", !.volume = Some(i)]
    /\ UNCHANGED <<held, settings, storage>>

\* ImageAdjuster.set_original_volume(volume), volume being heap object i
SetOriginalVolume(i) ==
    /\ nsteps < MaxSteps
    /\ nsteps' = nsteps + 1
    /\ heap' = Append(heap, [dtype |-> heap[i].dtype, data |-> heap[i].data])
    /\ original_volume' = Some(Len(heap) + 1)
    /\ original_dtype' = Some(heap[i].dtype)
    /\ original_min' = Some(ArrMin(heap[i].data))
    /\ original_max' = Some(ArrMax(heap[i].data))
    /\ reg' = Some([arg |-> i, dtype |-> heap[i].dtype, data |-> heap[i].data])
    /\ last' = [NoCall EXCEPT !.op = "set_original_volume", !.volume = Some(i)]
    /\ UNCHANGED <<held, settings, storage>>

\* ImageAdjuster.has_original_volume()
has_original_volume == original_volume # None

\* ImageAdjuster.get_original_volume()
GetOriginalVolume ==
    /\ nsteps < MaxSteps
    /\ nsteps' = nsteps + 1
    /\ held' = IF original_volume = None THEN held ELSE held \cup {original_volume[1]}
    /\ last' = [NoCall EXCEPT !.op = "get_original_volume", !.result = original_volume]
    /\ UNCHANGED <<heap, adjuster, reg, storage>>

\* Faulty variant of ApplyAdjustments: the settings argument is stored in
\* self.settings before the volume is looked at
ApplyAdjustments_StoresSettings(volume, sarg) ==
    /\ Return("apply_adjustments", volume, None, sarg, apply_adjustments(volume, sarg))
    /\ settings' = IF sarg = None THEN settings ELSE sarg[1]
    /\ UNCHANGED <<original_volume, original_dtype, original_min, original_max>>

\* ImageAdjuster.apply_adjustments as a call made by the caller
ApplyAdjustments(volume, sarg) ==
    /\ Return("apply_adjustments", volume, None, sarg, apply_adjustments(volume, sarg))
    /\ UNCHANGED adjuster

\* ImageAdjuster.apply_to_slice as a call made by the caller
ApplyToSlice(i, z, sarg) ==
    /\ Return("apply_to_slice", Some(i), Some(z), sarg, apply_to_slice(i, z, sarg))
    /\ UNCHANGED adjuster

\* The caller stores val at [r][c] of an array it holds.
CallerWrite(i, r, c, val) ==
    /\ nsteps < MaxSteps
    /\ nsteps' = nsteps + 1
    /\ heap' = [heap EXCEPT ![i].data[r][c] = val]
    /\ last' = [NoCall EXCEPT !.op = "write", !.volume = Some(i), !.written = Some(<<r, c, val>>)]
    /\ UNCHANGED <<held, adjuster, reg, storage>>

\* The user interface assigns the fields of adjuster.settings.
SetSettings(s) ==
    /\ nsteps < MaxSteps
    /\ nsteps' = nsteps + 1
    /\ settings' = s
    /\ last' = [NoCall EXCEPT !.op = "set_settings", !.used = Some(s)]
    /\ UNCHANGED <<heap, held, original_volume, original_dtype, original_min,
                   original_max, reg, storage>>

\* AdjustmentSettings.reset() on adjuster.settings
Reset ==
    /\ nsteps < MaxSteps
    /\ nsteps' = nsteps + 1
    /\ settings' = DefaultSettings
    /\ last' = [NoCall EXCEPT !.op = "reset"]
    /\ UNCHANGED <<heap, held, original_volume, original_dtype, original_min,
                   original_max, reg, storage>>

\* the samples the caller writes to: the first and the last of the array
WritePositions(i) == {<<1, 1>>, <<Len(heap[i].data), DimX>>}

VolumeArgs == {None} \cup {Some(i) : i \in held}
\* settings arguments of the apply calls: absent, all-default, non-default
SettingsArgs ==
    {None, Some(DefaultSettings),
     Some([DefaultSettings EXCEPT !.brightness = 20 * Unit, !.contrast = 2 * Unit])}

Next ==
    \/ \E v \in CallerVolumes : NewVolume(v)
    \/ \E i \in held : SetOriginalVolume(i)
    \/ GetOriginalVolume
    \/ \E volume \in VolumeArgs, sarg \in SettingsArgs : ApplyAdjustments(volume, sarg)
    \/ \E i \in held, sarg \in SettingsArgs :
          \E z \in 1..Len(heap[i].data) : ApplyToSlice(i, z, sarg)
    \/ \E i \in held, val \in WriteVals :
          \E pos \in WritePositions(i) : CallerWrite(i, pos[1], pos[2], val)
    \/ \E s \in CallerSettings : SetSettings(s)
    \/ Reset

Spec == Init /\ [][Next]_vars

-----------------------------------------------------------------------------
(* The transforms on their whole input domain: a volume is registered, the *)
(* user interface has set any settings value, and one call is made: an     *)
(* apply call, or a reset of the settings.                                 *)

InitPure ==
    \E v \in AllVolumes, s \in AllSettings \cup WildSettings :
        /\ heap = <<v, [dtype |-> v.dtype, data |-> v.data]>>
        /\ held = {1}
        /\ settings = s
        /\ original_volume = Some(2)
        /\ original_dtype = Some(v.dtype)
        /\ original_min = Some(ArrMin(v.data))
        /\ original_max = Some(ArrMax(v.data))
        /\ reg = Some([arg |-> 1, dtype |-> v.dtype, data |-> v.data])
        /\ last = NoCall
        /\ nsteps = 0
        /\ file = None
        /\ io = NoIO

NextPure ==
    /\ nsteps = 0
    /\ \/ \E volume \in VolumeArgs : ApplyAdjustments(volume, None)
       \/ \E i \in held : \E z \in 1..Len(heap[i].data) : ApplyToSlice(i, z, None)
       \/ Reset

SpecPure == InitPure /\ [][NextPure]_vars

-----------------------------------------------------------------------------
(* Settings persistence.  A file is a sequence of lines; a line is a        *)
(* sequence of tokens: a space, a colon, a word (a run of other characters) *)
(* or a decimal number literal with its value in thousandths.               *)

Tok(k, w, v) == [k |-> k, w |-> w, v |-> v]
SP == Tok("sp", "", 0)
COLON == Tok("colon", "", 0)
Word(w) == Tok("word", w, 0)
\* a number literal; sign is "+" when the text carries an explicit plus sign
Num(sign, v) == Tok("num", sign, v)
\* an integer literal written without a decimal point, such as "1"
IntLit(v) == Tok("int", "", v)

Spaces(n) == [i \in 1..n |-> SP]

RECURSIVE Text(_)
\* the words of ws separated by single spaces
Text(ws) ==
    IF Len(ws) = 0 THEN <<>>
    ELSE IF Len(ws) = 1 THEN <<Word(ws[1])>>
    ELSE <<Word(ws[1]), SP>> \o Text(Tail(ws))

\* format(x, '.1f') / format(x, '.2f'): x rounded to the given step
FormatFixed(x, step) == RoundDiv(x, step) * step

\* "=" * 60 and "-" * 40
Rule60 == <<Word("============================================================")>>
Rule40 == <<Word("----------------------------------------")>>

RECURSIVE InfoLines(_)
\* f"  {key}: {value}" for every item of volume_info
InfoLines(info) ==
    IF Len(info) = 0 THEN <<>>
    ELSE <<Spaces(2) \o info[1].key \o <<COLON, SP>> \o info[1].value>> \o InfoLines(Tail(info))

\* the lines export_adjustment_settings writes, in order
ExportLines(s, volume_info) ==
    <<Rule60,
      Text(<<"VMM-FRC", "Image", "Adjustment", "Settings">>),
      Rule60,
      <<>>,
      <<Word("Exported"), COLON, SP, Word("YYYY-mm-dd"), SP,
        Word("HH"), COLON, Word("MM"), COLON, Word("SS")>>,
      <<>> >>
    \o (IF volume_info # None /\ Len(volume_info[1]) > 0
        THEN <<Rule40, Text(<<"Volume", "Information">>), Rule40>>
             \o InfoLines(volume_info[1]) \o << <<>> >>
        ELSE <<>>)
    \o <<Rule40,
         Text(<<"Adjustment", "Parameters">>),
         Rule40,
         Spaces(2) \o <<Word("Brightness"), COLON>> \o Spaces(2)
            \o <<Num("+", FormatFixed(s.brightness, 100))>>,
         Spaces(2) \o <<Word("Contrast"), COLON>> \o Spaces(4)
            \o <<Num("", FormatFixed(s.contrast, 10))>>,
         Spaces(2) \o <<Word("Gamma"), COLON>> \o Spaces(7)
            \o <<Num("", FormatFixed(s.gamma, 10))>>,
         Spaces(2) \o <<Word("Sharpness"), COLON>> \o Spaces(3)
            \o <<Num("", FormatFixed(s.sharpness, 100))>>,
         Spaces(2) \o <<Word("Invert"), COLON>> \o Spaces(6)
            \o <<Word(IF s.invert THEN "Yes" ELSE "No")>>,
         <<>>,
         Rule40,
         Text(<<"Parameter", "Descriptions">>),
         Rule40,
         Spaces(2) \o <<Word("Brightness"), COLON>> \o Spaces(2)
            \o Text(<<"Shifts", "all", "pixel", "values", "(-100", "to", "+100)">>),
         Spaces(2) \o <<Word("Contrast"), COLON>> \o Spaces(4)
            \o Text(<<"Multiplier", "around", "midpoint", "(0.1", "to", "3.0,", "1.0",
                      "=", "no", "change)">>),
         Spaces(2) \o <<Word("Gamma"), COLON>> \o Spaces(7)
            \o Text(<<"Gamma", "correction", "(0.1", "to", "3.0,", "1.0", "=", "no",
                      "change)">>),
         Spaces(15) \o Text(<<"Lower", "values", "brighten,", "higher", "values", "darken">>),
         Spaces(2) \o <<Word("Sharpness"), COLON>> \o Spaces(3)
            \o Text(<<"Unsharp", "mask", "amount", "(0", "to", "100)">>),
         Spaces(2) \o <<Word("Invert"), COLON>> \o Spaces(6)
            \o Text(<<"Inverts", "all", "pixel", "intensities">>),
         <<>>,
         Rule60>>

RECURSIVE LStrip(_)
LStrip(line) == IF Len(line) > 0 /\ line[1] = SP THEN LStrip(Tail(line)) ELSE line

RECURSIVE RStrip(_)
RStrip(line) ==
    IF Len(line) > 0 /\ line[Len(line)] = SP
    THEN RStrip(SubSeq(line, 1, Len(line) - 1))
    ELSE line

\* str.strip()
Strip(line) == RStrip(LStrip(line))

\* Faulty variant of StartsWith: the prefix is matched without regard to case
StartsWith_AnyCase(line, prefix) ==
    /\ Len(line) >= 2
    /\ line[2] = COLON
    /\ line[1] \in {Word(prefix), Word(IF prefix = "Brightness" THEN "brightness" ELSE prefix)}

\* line.startswith(prefix + ':')
StartsWith(line, prefix) == Len(line) >= 2 /\ line[1] = Word(prefix) /\ line[2] = COLON

RECURSIVE UpToColon(_)
UpToColon(toks) ==
    IF Len(toks) = 0 \/ toks[1] = COLON THEN <<>>
    ELSE <<toks[1]>> \o UpToColon(Tail(toks))

\* line.split(':')[1] for a line that starts with "<prefix>:"
SplitSecond(line) == UpToColon(SubSeq(line, 3, Len(line)))

\* float(text): None stands for the ValueError
ParseFloat(toks) ==
    IF Len(toks) = 1 /\ toks[1].k \in {"num", "int"} THEN Some(toks[1].v) ELSE None

\* str.lower() of a one-word text
Lower(w) ==
    CASE w \in {"Yes", "YES", "yes"}    -> "yes"
      [] w \in {"True", "TRUE", "true"} -> "true"
      [] w \in {"No", "NO", "no"}       -> "no"
      [] OTHER                          -> w

\* value in ('yes', 'true', '1')
InvertValue(toks) ==
    /\ Len(toks) = 1
    /\ \/ toks[1].k = "word" /\ Lower(toks[1].w) \in {"yes", "true"}
       \/ toks[1] = IntLit(Unit)

\* One pass of the loop body of load_adjustment_settings over a stripped
\* line: the settings after the line, or None when float() raises.
LoadLine(s, line) ==
    LET value == Strip(SplitSecond(line))
        f == ParseFloat(value)
    IN CASE StartsWith(line, "Brightness") ->
              IF f = None THEN None ELSE Some([s EXCEPT !.brightness = f[1]])
         [] StartsWith(line, "Contrast") ->
              IF f = None THEN None ELSE Some([s EXCEPT !.contrast = f[1]])
         [] StartsWith(line, "Gamma") ->
              IF f = None THEN None ELSE Some([s EXCEPT !.gamma = f[1]])
         [] StartsWith(line, "Sharpness") ->
              IF f = None THEN None ELSE Some([s EXCEPT !.sharpness = f[1]])
         [] StartsWith(line, "Invert") ->
              Some([s EXCEPT !.invert = InvertValue(value)])
         [] OTHER -> Some(s)

RECURSIVE LoadLines(_, _)
LoadLines(s, lines) ==
    IF Len(lines) = 0 THEN Some(s)
    ELSE LET after == LoadLine(s, Strip(lines[1]))
         IN IF after = None THEN None ELSE LoadLines(after[1], Tail(lines))

\* Faulty variant of load_adjustment_settings: the lines are taken last to
\* first, so the first occurrence of a prefix wins
load_adjustment_settings_FirstWins(f) ==
    IF f = None THEN None
    ELSE LoadLines(DefaultSettings,
                   [i \in 1..Len(f[1].lines) |-> f[1].lines[Len(f[1].lines) + 1 - i]])

\* load_adjustment_settings(filepath): Some(settings), or None when the
\* file cannot be opened or a recognized line does not parse
load_adjustment_settings(f) ==
    IF f = None THEN None ELSE LoadLines(DefaultSettings, f[1].lines)

\* settings values handed to export
ExportSettings ==
    [brightness : {-100 * Unit, 12340},
     contrast   : {Unit \div 10, 1504},
     gamma      : {Unit, 804},
     sharpness  : {45620},
     invert     : BOOLEAN]

\* volume_info arguments: absent, empty, ordinary, and one whose key is a
\* parameter name
ExportInfos ==
    {None,
     Some(<<>>),
     Some(<<[key |-> <<Word("shape")>>, value |-> Text(<<"(2,", "1,", "2)">>)]>>),
     Some(<<[key |-> <<Word("Gamma")>>, value |-> <<Num("", 2 * Unit)>>]>>)}

\* Faulty variant of Export: True is returned whether or not the writes
\* went through
Export_AlwaysTrue(s, volume_info, fault, cut) ==
    /\ nsteps < MaxSteps
    /\ nsteps' = nsteps + 1
    /\ file' = CASE fault = "none"  -> Some([lines |-> ExportLines(s, volume_info),
                                             exported |-> Some(s)])
                 [] fault = "open"  -> file
                 [] fault = "write" -> Some([lines |-> SubSeq(ExportLines(s, volume_info), 1, cut),
                                             exported |-> None])
    /\ io' = [op |-> "export", ret |-> None, ok |-> TRUE, fault |-> fault, raised |-> None]
    /\ UNCHANGED <<heap, held, adjuster, reg, last>>

\* export_adjustment_settings(settings, filepath, volume_info).  fault is
\* "none", "open" (the file cannot be opened for writing) or "write" (a
\* write fails after cut lines have been written).
Export(s, volume_info, fault, cut) ==
    /\ nsteps < MaxSteps
    /\ nsteps' = nsteps + 1
    /\ file' = CASE fault = "none"  -> Some([lines |-> ExportLines(s, volume_info),
                                             exported |-> Some(s)])
                 [] fault = "open"  -> file
                 [] fault = "write" -> Some([lines |-> SubSeq(ExportLines(s, volume_info), 1, cut),
                                             exported |-> None])
    /\ io' = [op |-> "export", ret |-> None, ok |-> (fault = "none"), fault |-> fault,
              raised |-> None]
    /\ UNCHANGED <<heap, held, adjuster, reg, last>>

\* load_adjustment_settings(filepath)
Load ==
    /\ nsteps < MaxSteps
    /\ nsteps' = nsteps + 1
    /\ io' = [op |-> "load", ret |-> load_adjustment_settings(file),
              ok |-> (load_adjustment_settings(file) # None), fault |-> "none",
              raised |-> None]
    /\ UNCHANGED <<file, heap, held, adjuster, reg, last>>

\* where a failing write stops: before the first line, or after twelve lines
WriteCuts == {0, 12}

NextIO ==
    \/ \E s \in ExportSettings, volume_info \in ExportInfos :
          \E fault \in {"none", "open", "write"}, cut \in WriteCuts :
             /\ fault # "write" => cut = 0
             /\ Export(s, volume_info, fault, cut)
    \/ Load

SpecIO == Init /\ [][NextIO]_vars

-----------------------------------------------------------------------------
(* Import of files written by hand or by other tools: a file of up to      *)
(* MaxLines lines exists (or none does) and load_adjustment_settings reads *)
(* it.                                                                     *)

\* the lines such a file is made of
HandLines ==
    {<<Word("Brightness"), COLON, SP, Num("+", 12300)>>,
     <<Word("Brightness"), COLON, SP, Num("", -5 * Unit)>>,
     <<Word("Brightness"), COLON, SP, Word("abc")>>,
     <<Word("Brightness"), COLON, SP, Num("", -5 * Unit), COLON, IntLit(30 * Unit)>>,
     Spaces(2) \o <<Word("Contrast"), COLON>> \o Spaces(4) \o <<Num("", 1500)>> \o Spaces(2),
     <<Word("Gamma"), COLON>>,
     <<Word("Invert"), COLON, SP, Word("Yes")>>,
     <<Word("Invert"), COLON, SP, IntLit(Unit)>>,
     <<Word("Invert"), COLON, SP, Word("No")>>,
     <<Word("Invert"), COLON>>,
     <<Word("Invert"), COLON, SP, Word("TRUE"), COLON, Word("x")>>,
     <<Word("Invert"), COLON, SP, Num("", Unit)>>,
     <<>>,
     <<Word("brightness"), COLON, SP, IntLit(7 * Unit)>>,
     Spaces(2) \o <<Word("shape"), COLON, SP>> \o Text(<<"(2,", "1,", "2)">>)}

\* the files: every sequence of at most MaxLines of these lines
HandFiles == UNION {[1..n -> HandLines] : n \in 0..MaxLines}

InitParse ==
    /\ heap = <<>>
    /\ held = {}
    /\ settings = DefaultSettings
    /\ original_volume = None
    /\ original_dtype = None
    /\ original_min = None
    /\ original_max = None
    /\ reg = None
    /\ last = NoCall
    /\ nsteps = 0
    /\ file \in {None} \cup {Some([lines |-> f, exported |-> None]) : f \in HandFiles}
    /\ io = NoIO

NextParse == nsteps = 0 /\ Load

SpecParse == InitParse /\ [][NextParse]_vars

-----------------------------------------------------------------------------
(* Properties *)

\* the step just taken was a call of one of the two apply operations
ApplyStep == nsteps' # nsteps /\ last'.op \in {"apply_adjustments", "apply_to_slice"}

ApplyDone(opname) == last.op = opname /\ last.status = "ok"

\* the array the latest apply_adjustments call worked on
SourceOfLast == IF last.volume = None THEN original_volume[1] ELSE last.volume[1]

\* C3. Idempotence of defaults: apply_adjustments with all-default settings
\* returns an array equal to the volume in element type and in every value,
\* computed without a normalization pass, and the returned array is a copy:
\* an object distinct from the volume and from the stored original.
C3_DefaultsReturnCopy ==
    (ApplyDone("apply_adjustments") /\ is_default(last.used[1])) =>
        /\ heap[last.result[1]] = heap[SourceOfLast]
        /\ last.result[1] # SourceOfLast
        /\ last.result # original_volume
        /\ last.normalized = None
        /\ last.v_min = None

C3_Witness ==
    /\ ApplyDone("apply_adjustments")
    /\ is_default(last.used[1])
    /\ original_volume # None
    /\ heap[SourceOfLast].data = reg[1].data

\* C4. Dtype fidelity: with an 8-bit unsigned original of range [0,255]
\* registered, apply_adjustments on that volume returns, for any settings
\* value, an 8-bit array whose elements are whole numbers within [0,255],
\* each the truncated denormalized field value (no wrap-around).
C4_Uint8Fidelity ==
    (/\ ApplyDone("apply_adjustments")
     /\ original_dtype = Some("uint8")
     /\ original_min = Some(0)
     /\ original_max = Some(255 * Unit)
     /\ heap[SourceOfLast] = [dtype |-> "uint8", data |-> reg[1].data]) =>
        LET res == heap[last.result[1]]
        IN /\ res.dtype = "uint8"
           /\ \A x \in Elems(res.data) : 0 <= x /\ x <= 255 * Unit /\ x % Unit = 0
           /\ ~is_default(last.used[1]) =>
                \A r \in 1..Len(res.data) : \A c \in 1..Len(res.data[r]) :
                    res.data[r][c] = Unit * ((255 * last.field[1][r][c]) \div Unit)

C4_Witness ==
    /\ ApplyDone("apply_adjustments")
    /\ original_dtype = Some("uint8")
    /\ original_min = Some(0)
    /\ original_max = Some(255 * Unit)
    /\ heap[SourceOfLast] = [dtype |-> "uint8", data |-> reg[1].data]
    /\ last.used[1].brightness # 0
    /\ last.used[1].gamma # Unit
    /\ last.used[1].sharpness # 0
    /\ last.used[1].invert
    /\ \E x \in Elems(heap[last.result[1]].data) : 0 < x /\ x < 255 * Unit

\* C5. Precondition failure: apply_adjustments called without a volume while
\* none is registered raises ValueError for every settings value, and the
\* failed call changes neither the adjuster's fields nor any array.
C5_PreconditionFailure ==
    [][(/\ nsteps' # nsteps
        /\ last'.op = "apply_adjustments"
        /\ last'.volume = None
        /\ original_volume = None) =>
           /\ last'.status = "ValueError"
           /\ last'.result = None
           /\ UNCHANGED <<adjuster, heap, held>>]_vars

C5_Witness ==
    /\ last.op = "apply_adjustments"
    /\ last.status = "ValueError"
    /\ last.sarg # None
    /\ ~is_default(last.sarg[1])
    /\ last.sarg[1] # settings

\* C6. Fixed reference range: while a volume is registered, every non-default
\* apply_adjustments call uses the min/max of the array given to the latest
\* set_original_volume call, whatever the volume argument is, and no apply
\* call changes the cached range.
C6_FixedReferenceRange ==
    /\ []((ApplyDone("apply_adjustments") /\ ~is_default(last.used[1]) /\ reg # None) =>
            /\ last.v_min = Some(ArrMin(reg[1].data))
            /\ last.v_max = Some(ArrMax(reg[1].data)))
    /\ [][ApplyStep => UNCHANGED <<original_min, original_max>>]_vars

C6_Witness ==
    /\ ApplyDone("apply_adjustments")
    /\ ~is_default(last.used[1])
    /\ reg # None
    /\ last.volume # None
    /\ ArrMin(heap[last.volume[1]].data) # ArrMin(reg[1].data)
    /\ ArrMax(heap[last.volume[1]].data) # ArrMax(reg[1].data)

\* C7. Fixed transform order: in apply_adjustments and in apply_to_slice the
\* transformed field is invert(sharpness(gamma(contrast(brightness(x)))))
\* of the normalized field x, for every settings value.
C7_TransformOrder ==
    ((ApplyDone("apply_adjustments") \/ ApplyDone("apply_to_slice"))
       /\ ~is_default(last.used[1])) =>
        LET s == last.used[1]
            x == Fresh("float32", last.normalized[1])
        IN last.field[1] =
             apply_invert(
               apply_sharpness(
                 apply_gamma(
                   apply_contrast(
                     apply_brightness(x, s.brightness),
                     s.contrast),
                   s.gamma),
                 s.sharpness),
               s.invert).data

\* a call in which exchanging brightness and contrast would change the field
C7_Witness ==
    /\ ApplyDone("apply_to_slice")
    /\ last.used[1].brightness # 0
    /\ last.used[1].contrast # Unit
    /\ LET s == last.used[1]
           x == Fresh("float32", last.normalized[1])
       IN last.field[1] #
            apply_invert(apply_sharpness(apply_gamma(
                apply_brightness(apply_contrast(x, s.contrast), s.brightness),
                s.gamma), s.sharpness), s.invert).data

\* C8. Registration copies: the array stored by set_original_volume is not
\* the object the caller passed in, and a later write by the caller to the
\* array it passed in changes neither the stored original nor the cached
\* min/max.
C8_RegistrationCopies ==
    /\ [](reg # None => original_volume # Some(reg[1].arg))
    /\ [][(/\ nsteps' # nsteps
           /\ last'.op = "write"
           /\ reg # None
           /\ last'.volume = Some(reg[1].arg)) =>
              /\ heap'[original_volume[1]] = heap[original_volume[1]]
              /\ UNCHANGED <<original_volume, original_dtype, original_min, original_max>>]_vars

C8_Witness ==
    /\ last.op = "write"
    /\ reg # None
    /\ last.volume = Some(reg[1].arg)
    /\ heap[reg[1].arg].data # reg[1].data
    /\ heap[original_volume[1]].data = reg[1].data

\* C9. Reference-range invariant: whenever a volume is registered, every
\* element x of the stored original satisfies original_min <= x <= original_max.
C9_ReferenceRangeInvariant ==
    original_volume # None =>
        \A x \in Elems(heap[original_volume[1]].data) :
            original_min[1] <= x /\ x <= original_max[1]

\* C10. Purity of the apply operations: an apply call leaves the adjuster's
\* original volume, dtype, min, max and settings unchanged, writes to no
\* existing array (its input, the stored original, earlier results), and
\* returns a newly allocated array.
C10_ApplyIsPure ==
    [][ApplyStep =>
         /\ UNCHANGED adjuster
         /\ \A i \in 1..Len(heap) : heap'[i] = heap[i]
         /\ last'.status = "ok" =>
              /\ last'.result[1] \notin 1..Len(heap)
              /\ Len(heap') = Len(heap) + 1
              /\ last'.result # original_volume'
              /\ last'.result # last'.volume]_vars

\* an apply call made while an earlier result and the stored original exist
C10_Witness ==
    /\ ApplyDone("apply_to_slice")
    /\ is_default(last.used[1])
    /\ original_volume # None
    /\ Len(heap) >= 4

\* C1. Persistence round-trip: loading the file written by a successful
\* export of a valid settings value s (with any metadata) returns a settings
\* value whose brightness and sharpness are s's rounded to 1 decimal, whose
\* contrast and gamma are s's rounded to 2 decimals, and whose invert is
\* s.invert.
C1_RoundTrip ==
    (io.op = "load" /\ file # None /\ file[1].exported # None) =>
        LET s == file[1].exported[1]
        IN /\ io.ret # None
           /\ io.ret[1].brightness = RoundDiv(s.brightness, 100) * 100
           /\ io.ret[1].sharpness = RoundDiv(s.sharpness, 100) * 100
           /\ io.ret[1].contrast = RoundDiv(s.contrast, 10) * 10
           /\ io.ret[1].gamma = RoundDiv(s.gamma, 10) * 10
           /\ io.ret[1].invert = s.invert

\* C2. Preview/final consistency: for a slice taken from the registered
\* volume and non-default settings, apply_to_slice returns the corresponding
\* slice of apply_adjustments on the volume, in values and element type.
C2_PreviewEqualsFinal ==
    (/\ ApplyDone("apply_to_slice")
     /\ ~is_default(last.used[1])
     /\ reg # None
     /\ heap[last.volume[1]] = [dtype |-> reg[1].dtype, data |-> reg[1].data]
     /\ heap[original_volume[1]].data = reg[1].data) =>
        LET full == apply_adjustments(last.volume, last.sarg).value[1]
        IN heap[last.result[1]] =
             [dtype |-> full.dtype, data |-> <<full.data[last.row[1]]>>]

\* C11. No exceptional states besides the precondition: whenever a volume is
\* available (passed, or registered earlier), apply_adjustments and
\* apply_to_slice complete and return a result for every settings value,
\* values outside the documented domains included.
C11_AlwaysCompletes ==
    (/\ last.op \in {"apply_adjustments", "apply_to_slice"}
     /\ (last.volume # None \/ original_volume # None)) =>
        /\ last.status = "ok"
        /\ last.result # None

\* the samples the latest apply call was given: the volume, or the 2D slice
InputOfLast ==
    IF last.op = "apply_to_slice"
    THEN <<heap[last.volume[1]].data[last.row[1]]>>
    ELSE heap[SourceOfLast].data

\* C12. Degenerate range: when the reference range is constant (max == min),
\* the normalization of apply_adjustments and of apply_to_slice yields an
\* all-zero field of the input's shape for every non-default settings value,
\* and the call does not fail in it: the only call that does not return is
\* the one whose gamma is 0, which fails later, in apply_gamma.
C12_DegenerateRange ==
    (/\ last.op \in {"apply_adjustments", "apply_to_slice"}
     /\ last.used # None
     /\ ~is_default(last.used[1])
     /\ last.v_min = last.v_max) =>
        /\ last.normalized = Some([r \in 1..Len(InputOfLast) |->
                                     [c \in 1..Len(InputOfLast[r]) |-> 0]])
        /\ last.status # "ok" => GammaRaises(last.used[1].gamma)

C12_Witness ==
    /\ ApplyDone("apply_to_slice")
    /\ ~is_default(last.used[1])
    /\ last.v_min = last.v_max
    /\ \E r \in 1..Len(InputOfLast) : \E c \in 1..Len(InputOfLast[r]) : InputOfLast[r][c] # 0
    /\ last.used[1].sharpness # 0

\* the text of a recognized line after its "<prefix>:"
AfterPrefix(line) == SubSeq(line, 3, Len(line))

\* a line that, stripped, starts with one of the four numeric prefixes and
\* whose value after the prefix is not a number
BadNumericLine(line) ==
    \E prefix \in {"Brightness", "Contrast", "Gamma", "Sharpness"} :
        /\ StartsWith(Strip(line), prefix)
        /\ ParseFloat(Strip(AfterPrefix(Strip(line)))) = None

\* C13. All-or-nothing import: load_adjustment_settings raises nothing, and
\* it returns None when the file cannot be read or when any line with a
\* recognized numeric prefix carries a value that is not a number, whatever
\* was parsed before that line; a settings value is returned only when
\* every recognized parameter line parsed.
C13_AllOrNothing ==
    io.op = "load" =>
        /\ io.raised = None
        /\ file = None => io.ret = None
        /\ (file # None /\ \E i \in 1..Len(file[1].lines) : BadNumericLine(file[1].lines[i]))
              => io.ret = None

\* C14. The slice path keeps shape and element type: for every 2D slice and
\* every settings value, the array apply_to_slice returns has the shape and
\* the element type of the slice it was given, on the default fast path and
\* on the non-default path.
C14_SliceKeepsShapeAndDtype ==
    ApplyDone("apply_to_slice") =>
        LET given    == heap[last.volume[1]]
            returned == heap[last.result[1]]
        IN /\ Len(returned.data) = 1
           /\ Len(returned.data[1]) = Len(given.data[last.row[1]])
           /\ returned.dtype = given.dtype

\* the files a complete export writes
WholeFiles == {ExportLines(s, volume_info) : s \in ExportSettings, volume_info \in ExportInfos}

\* C15. Export reports failure as a value: export_adjustment_settings
\* raises nothing; it returns True exactly when no I/O error occurred, and
\* then the whole file is on disk; when the destination cannot be opened or
\* a write fails it returns False, and what a failed write leaves behind is
\* not a whole file.
C15_ExportReportsFailure ==
    io.op = "export" =>
        /\ io.raised = None
        /\ io.ok <=> io.fault = "none"
        /\ io.ok => file # None /\ file[1].lines \in WholeFiles
        /\ io.fault = "write" => file # None /\ file[1].lines \notin WholeFiles

C15_Witness ==
    /\ io.op = "export"
    /\ io.fault = "write"
    /\ ~io.ok
    /\ file # None
    /\ Len(file[1].lines) = 12

\* C16. Slice reference-range selection: on the non-default path
\* apply_to_slice normalizes with the cached (original_min, original_max)
\* whenever a volume has been registered, also when it was registered after
\* earlier previews, and with the slice's own minimum and maximum only when
\* no volume has ever been registered.
C16_SliceRangeSelection ==
    (/\ last.op = "apply_to_slice"
     /\ last.used # None
     /\ ~is_default(last.used[1])) =>
        IF reg # None
        THEN last.v_min = original_min /\ last.v_max = original_max
        ELSE /\ last.v_min = Some(ArrMin(InputOfLast))
             /\ last.v_max = Some(ArrMax(InputOfLast))

C16_Witness ==
    /\ ApplyDone("apply_to_slice")
    /\ ~is_default(last.used[1])
    /\ reg # None
    /\ <<ArrMin(InputOfLast), ArrMax(InputOfLast)>> # <<original_min[1], original_max[1]>>
    /\ last.volume[1] # reg[1].arg

\* the first word of a line that, stripped, begins with one of the five
\* prefixes; "" for any other line
PrefixOf(line) ==
    LET l == Strip(line)
    IN IF /\ Len(l) >= 2
          /\ l[2] = COLON
          /\ l[1] \in {Word(p) : p \in {"Brightness", "Contrast", "Gamma", "Sharpness", "Invert"}}
       THEN l[1].w
       ELSE ""

RECURSIVE RecognizedLines(_)
\* the lines of a file that begin with one of the five prefixes, in order
RecognizedLines(lines) ==
    IF Len(lines) = 0 THEN <<>>
    ELSE (IF PrefixOf(lines[1]) # "" THEN <<lines[1]>> ELSE <<>>)
         \o RecognizedLines(Tail(lines))

\* the file lines with line o inserted before position p
InsertLine(lines, p, o) ==
    SubSeq(lines, 1, p - 1) \o <<o>> \o SubSeq(lines, p, Len(lines))

\* the file lines with the lines at i and j exchanged
SwapLines(lines, i, j) == [lines EXCEPT ![i] = lines[j], ![j] = lines[i]]

\* the file with the given lines
FileOf(lines) == Some([lines |-> lines, exported |-> None])

\* C17. Import depends only on recognized lines: for a readable file, what
\* load_adjustment_settings returns is what it returns for the file's
\* recognized lines alone (those that, stripped, begin with Brightness:,
\* Contrast:, Gamma:, Sharpness: or Invert:); inserting any other line at
\* any position leaves the result unchanged, and so does exchanging two lines
\* when no prefix occurs twice.
C17_OnlyRecognizedLines ==
    (io.op = "load" /\ file # None) =>
        LET lines == file[1].lines
        IN /\ io.ret = load_adjustment_settings(FileOf(RecognizedLines(lines)))
           /\ \A o \in {l \in HandLines : PrefixOf(l) = ""} :
                 \A p \in 1..(Len(lines) + 1) :
                    load_adjustment_settings(FileOf(InsertLine(lines, p, o))) = io.ret
           /\ (\A i \in 1..Len(lines) : \A j \in 1..Len(lines) :
                 (i # j /\ PrefixOf(lines[i]) # "") => PrefixOf(lines[i]) # PrefixOf(lines[j]))
                 => \A i \in 1..Len(lines) : \A j \in (i + 1)..Len(lines) :
                       load_adjustment_settings(FileOf(SwapLines(lines, i, j))) = io.ret

C17_Witness ==
    /\ io.op = "load"
    /\ file # None
    /\ Len(file[1].lines) = 3
    /\ PrefixOf(file[1].lines[1]) = "Invert"
    /\ PrefixOf(file[1].lines[2]) = ""
    /\ Len(file[1].lines[2]) > 0
    /\ PrefixOf(file[1].lines[3]) = "Contrast"
    /\ io.ret = Some([DefaultSettings EXCEPT !.invert = TRUE, !.contrast = 1500])

\* the positions of the Invert: lines of a file
InvertLinesOf(lines) == {i \in 1..Len(lines) : PrefixOf(lines[i]) = "Invert"}

\* C18. Invert parsing: for a file with one Invert: line, the import sets
\* invert to true exactly when the value after the prefix, trimmed and
\* compared without regard to case, is yes, true or 1; any other value, the
\* empty one included, sets it to false, and the line never makes the
\* import fail.
C18_InvertParsing ==
    (/\ io.op = "load"
     /\ file # None
     /\ Cardinality(InvertLinesOf(file[1].lines)) = 1) =>
        LET lines == file[1].lines
            i     == CHOOSE k \in InvertLinesOf(lines) : TRUE
        IN /\ io.ret # None =>
                 io.ret[1].invert = InvertValue(Strip(AfterPrefix(Strip(lines[i]))))
           /\ io.ret = None => \E k \in 1..Len(lines) : BadNumericLine(lines[k])

\* C19. is_default() holds if and only if all five fields have their
\* default values; the apply operations take the quick return, without
\* normalization, exactly for such settings; and after reset() is_default()
\* holds.
C19_IsDefault ==
    /\ is_default(settings) <=> settings = DefaultSettings
    /\ (last.op \in {"apply_adjustments", "apply_to_slice"} /\ last.used # None) =>
          /\ is_default(last.used[1]) <=> last.used[1] = DefaultSettings
          /\ (last.v_min = None /\ last.normalized = None) <=> last.used[1] = DefaultSettings
    /\ last.op = "reset" => is_default(settings)

C19_Witness ==
    /\ ApplyDone("apply_to_slice")
    /\ last.used = Some([DefaultSettings EXCEPT !.invert = TRUE])
    /\ last.v_min # None
    /\ heap[last.result[1]].data # InputOfLast

\* every sample of the field lies in [0, 1]
InUnit(data) == \A x \in Elems(data) : 0 <= x /\ x <= Unit

\* the documented domains of the four numeric parameters
InDomain(s) ==
    /\ -100 * Unit <= s.brightness /\ s.brightness <= 100 * Unit
    /\ Unit \div 10 <= s.contrast /\ s.contrast <= 3 * Unit
    /\ Unit \div 10 <= s.gamma /\ s.gamma <= 3 * Unit
    /\ 0 <= s.sharpness /\ s.sharpness <= 100 * Unit

\* C20. Range closure of the transforms: with every parameter in its
\* documented domain and a normalized field in [0, 1] (the input lies inside
\* the reference range), each of apply_brightness, apply_contrast,
\* apply_gamma, apply_sharpness and apply_invert, fed the field the
\* transform before it returned, returns a field in [0, 1], so the field the
\* chain ends with is in [0, 1]; and each transform returns its input
\* unchanged at its neutral parameter.
C20_RangeClosure ==
    (/\ last.op \in {"apply_adjustments", "apply_to_slice"}
     /\ last.status = "ok"
     /\ last.normalized # None
     /\ InDomain(last.used[1])
     /\ InUnit(last.normalized[1])) =>
        LET s  == last.used[1]
            r0 == Fresh("float32", last.normalized[1])
            r1 == apply_brightness(r0, s.brightness)
            r2 == apply_contrast(r1, s.contrast)
            r3 == apply_gamma(r2, s.gamma)
            r4 == apply_sharpness(r3, s.sharpness)
            r5 == apply_invert(r4, s.invert)
        IN /\ InUnit(r1.data) /\ InUnit(r2.data) /\ InUnit(r3.data)
           /\ InUnit(r4.data) /\ InUnit(r5.data)
           /\ InUnit(last.field[1])
           /\ apply_brightness(r1, 0) = r1
           /\ apply_contrast(r2, Unit) = r2
           /\ apply_gamma(r3, Unit) = r3
           /\ apply_sharpness(r4, 0) = r4
           /\ apply_invert(r5, FALSE) = r5

C20_Witness ==
    /\ ApplyDone("apply_adjustments")
    /\ last.normalized # None
    /\ InDomain(last.used[1])
    /\ last.used[1].brightness = 100 * Unit
    /\ last.used[1].contrast = 3 * Unit
    /\ last.used[1].sharpness = 100 * Unit
    /\ last.used[1].gamma = Unit \div 2
    /\ last.used[1].invert
    /\ \E x \in Elems(last.field[1]) : x = 0
    /\ \E x \in Elems(last.normalized[1]) : 0 < x /\ x < Unit

\* the settings of the order example: brightness 20, contrast 2.0
OrderSettings == [DefaultSettings EXCEPT !.brightness = 20 * Unit, !.contrast = 2 * Unit]

\* the latest apply call ran the chain with the settings of the order example
OrderCall ==
    /\ last.op \in {"apply_adjustments", "apply_to_slice"}
    /\ last.status = "ok"
    /\ last.used = Some(OrderSettings)

\* brightness 20 then contrast 2.0 on the normalized field of the latest call
BrightnessThenContrast ==
    apply_contrast(apply_brightness(Fresh("float32", last.normalized[1]), 20 * Unit),
                   2 * Unit).data

\* contrast 2.0 then brightness 20 on the same field
ContrastThenBrightness ==
    apply_brightness(apply_contrast(Fresh("float32", last.normalized[1]), 2 * Unit),
                     20 * Unit).data

cached == <<original_volume, original_dtype, original_min, original_max>>

\* the four cached fields are all unset, or all set by the latest
\* set_original_volume call: the dtype and the range are those of its
\* argument as it was then
CachedConsistent ==
    IF reg = None
    THEN cached = <<None, None, None, None>>
    ELSE /\ original_volume # None
         /\ original_volume[1] \in 1..Len(heap)
         /\ heap[original_volume[1]].dtype = reg[1].dtype
         /\ original_dtype = Some(reg[1].dtype)
         /\ original_min = Some(ArrMin(reg[1].data))
         /\ original_max = Some(ArrMax(reg[1].data))

\* a step that changes a cached field is a set_original_volume call, which
\* stores a new copy of its argument; and a stored volume stays stored
CachedStep ==
    /\ cached' # cached =>
          /\ last'.op = "set_original_volume"
          /\ original_volume' = Some(Len(heap) + 1)
          /\ Len(heap') = Len(heap) + 1
          /\ heap'[Len(heap) + 1] = heap[last'.volume[1]]
          /\ reg' = Some([arg |-> last'.volume[1], dtype |-> heap[last'.volume[1]].dtype,
                          data |-> heap[last'.volume[1]].data])
    /\ (nsteps' # nsteps /\ last'.op = "set_original_volume") => has_original_volume'
    /\ has_original_volume => has_original_volume'

\* C22. Cached reference state is consistent and registration is never
\* undone: in every reachable state the four cached fields are all unset or
\* all set by the most recent set_original_volume call, a re-registration
\* replaces the four together, and has_original_volume() is false at first,
\* true after a registration and never false again.
C22_CachedStateConsistent ==
    /\ [](CachedConsistent /\ (nsteps = 0 => ~has_original_volume))
    /\ [][CachedStep]_vars

\* a second registration, of an array of another element type and range
C22_Witness ==
    /\ last.op = "set_original_volume"
    /\ has_original_volume
    /\ original_volume[1] >= 4
    /\ \E i \in 1..(original_volume[1] - 1) :
          /\ heap[i].dtype # heap[original_volume[1]].dtype
          /\ ArrMax(heap[i].data) # original_max[1]
          /\ i \notin held

FivePrefixes == {"Brightness", "Contrast", "Gamma", "Sharpness", "Invert"}

\* the field of settings value s that the lines with this prefix assign
FieldOf(s, prefix) ==
    CASE prefix = "Brightness" -> s.brightness
      [] prefix = "Contrast"   -> s.contrast
      [] prefix = "Gamma"      -> s.gamma
      [] prefix = "Sharpness"  -> s.sharpness
      [] prefix = "Invert"     -> s.invert

\* the positions of the lines of a file that begin with the prefix
LinesWith(lines, prefix) == {i \in 1..Len(lines) : PrefixOf(lines[i]) = prefix}

\* the last line of the file that begins with the prefix
LastWith(lines, prefix) ==
    lines[CHOOSE i \in LinesWith(lines, prefix) : \A j \in LinesWith(lines, prefix) : j <= i]

\* every field of the loaded settings is the default when its prefix does
\* not occur, and what the last line with its prefix alone loads as otherwise
DefaultsAndLastWins(lines, loaded) ==
    \A prefix \in FivePrefixes :
        IF LinesWith(lines, prefix) = {}
        THEN FieldOf(loaded, prefix) = FieldOf(DefaultSettings, prefix)
        ELSE LET alone == load_adjustment_settings(FileOf(<<LastWith(lines, prefix)>>))
             IN alone # None /\ FieldOf(loaded, prefix) = FieldOf(alone[1], prefix)

====
